---------------------------- MODULE Spec2Model ----------------------------
(***************************************************************************)
(* Model of update_cloudfront_r53_dns_record/cloudfront_dns_automation.py: *)
(* one run of the CloudFront CNAME-swap DNS automation script.             *)
(*                                                                         *)
(* Strings are sequences of one-character strings, so that str.strip and   *)
(* str.rstrip are computed and not assumed.  The two AWS clients (cf, r53) *)
(* are the environment: cf.get_distribution returns any snapshot of a      *)
(* bounded set or raises, r53.change_resource_record_sets applies a whole  *)
(* batch or raises and leaves the zone as it was.                          *)
(***************************************************************************)
EXTENDS Integers, Sequences, FiniteSets, TLC

VARIABLES
    argv,          \* sys.argv[1:], a sequence of strings
    pc,            \* position of the run in main / checkAlias
    response,      \* checkAlias: the last value returned by cf.get_distribution
    aliases,       \* checkAlias: local variable aliases
    total_delay,   \* checkAlias: local variable total_delay, in ticks
    ipv6_enabled,  \* main: local variable ipv6_enabled
    errors,        \* validate_inputs: the list errors, as raised in the ValueError
    dns,           \* the hosted zone: a set of resource record sets
    dns0,          \* the hosted zone as it was when the run started
    r53_calls,     \* every call made to r53.change_resource_record_sets
    returns,       \* how each call of updateRecord ended, and the zone it left
    trace,         \* the calls and sleeps of the run, in order (or NoTrace)
    printed,       \* class of the last line main printed
    exit_status    \* process exit status, Running until the process exits

vars == << argv, pc, response, aliases, total_delay, ipv6_enabled, errors,
           dns, dns0, r53_calls, returns, trace, printed, exit_status >>

-----------------------------------------------------------------------------
(* Bounds of the model *)

\* fetches of one run of checkAlias the model follows
MaxPolls == 3
\* ticks per second: the resolution at which random.uniform is sampled
TicksPerSecond == 2
\* longest string drawn for an input field of validate_inputs
MaxFieldLen == 2
\* longest domain name drawn for the comparison of checkAlias
MaxDomainLen == 3

-----------------------------------------------------------------------------
(* Strings *)

\* every string over alphabet of length at most n
Strs(alphabet, n) == UNION { [1..k -> alphabet] : k \in 0..n }

\* the ASCII characters str.strip() removes
Whitespace == {" ", "\t", "\n", "\r", "\f"}

RECURSIVE lstrip(_)
\* str.lstrip(): leading whitespace removed
lstrip(s) ==
    IF s # << >> /\ Head(s) \in Whitespace THEN lstrip(Tail(s)) ELSE s

RECURSIVE rstrip_ws(_)
\* str.rstrip(): trailing whitespace removed
rstrip_ws(s) ==
    IF s # << >> /\ s[Len(s)] \in Whitespace
    THEN rstrip_ws(SubSeq(s, 1, Len(s) - 1))
    ELSE s

\* str.strip()
strip(s) == rstrip_ws(lstrip(s))

\* rstrip that removes one trailing ch at most
rstrip_one(s, ch) ==
    IF s # << >> /\ s[Len(s)] = ch THEN SubSeq(s, 1, Len(s) - 1) ELSE s

RECURSIVE rstrip(_, _)
\* str.rstrip(ch) with a one-character argument: EVERY trailing ch removed
rstrip(s, ch) ==
    IF s # << >> /\ s[Len(s)] = ch
    THEN rstrip(SubSeq(s, 1, Len(s) - 1), ch)
    ELSE s

\* x in list
In(x, list) == \E i \in 1..Len(list) : list[i] = x

-----------------------------------------------------------------------------
(* validate_inputs *)

MsgCloudfrontId ==
    "CloudFront distribution ID is required and must be a non-empty string"
MsgHostedZoneId ==
    "Route 53 hosted zone ID is required and must be a non-empty string"
MsgNewDomain ==
    "New CloudFront domain is required and must be a non-empty string"
MsgAlias == "DNS alias is required and must be a non-empty string"

\* not x or not isinstance(x, str) or not x.strip(); every argument is a str
Invalid(x) == x = << >> \/ strip(x) = << >>

\* validate_inputs that raises on the first invalid argument it finds
validate_inputs_first_only(cloudfront_id, hosted_zone_id, new_domain, alias) ==
    IF Invalid(cloudfront_id) THEN << MsgCloudfrontId >>
    ELSE IF Invalid(hosted_zone_id) THEN << MsgHostedZoneId >>
    ELSE IF Invalid(new_domain) THEN << MsgNewDomain >>
    ELSE IF Invalid(alias) THEN << MsgAlias >>
    ELSE << >>

\* the list errors that validate_inputs has built when it reaches "if errors:"
validate_inputs(cloudfront_id, hosted_zone_id, new_domain, alias) ==
    (IF Invalid(cloudfront_id) THEN << MsgCloudfrontId >> ELSE << >>)
    \o (IF Invalid(hosted_zone_id) THEN << MsgHostedZoneId >> ELSE << >>)
    \o (IF Invalid(new_domain) THEN << MsgNewDomain >> ELSE << >>)
    \o (IF Invalid(alias) THEN << MsgAlias >> ELSE << >>)

-----------------------------------------------------------------------------
(* checkAlias: the tests it makes on a response *)

\* expected_domain.rstrip('.') != actual_domain.rstrip('.')
DomainMismatch(expected_domain, actual_domain) ==
    rstrip(expected_domain, ".") # rstrip(actual_domain, ".")

\* response[...]["Aliases"]["Items"], [] on KeyError.  A response is a function
\* whose domain is the set of keys the provider returned.
GetAliases(resp) == IF "Items" \in DOMAIN resp THEN resp.Items ELSE << >>

\* NotReady without its membership test: "while not aliases"
NotReadyEmptyOnly(als, alias) == als = << >>

\* NotReady with "and" for "or": "while aliases and alias not in aliases"
NotReadyNonEmptyOnly(als, alias) == als # << >> /\ ~ In(alias, als)

\* NotReady with its membership test inverted: "alias in aliases"
NotReadyInverted(als, alias) == als = << >> \/ In(alias, als)

\* the loop condition: not aliases or alias not in aliases
NotReady(als, alias) == als = << >> \/ ~ In(alias, als)

\* response[...]["DistributionConfig"].get("IsIPV6Enabled", False)
GetIPv6(resp) ==
    IF "IsIPV6Enabled" \in DOMAIN resp THEN resp.IsIPV6Enabled ELSE FALSE

\* base_delay = 3
BaseDelay == 3
\* the upper end of random.uniform(0, 5)
JitterMax == 5

\* a jitter drawn from 0..5 with both ends included, as random.randint draws
JitterInclusive == 0 .. (JitterMax * TicksPerSecond)

\* random.uniform(0, 5): a + (b - a) * random(), random() in [0, 1), in ticks
Jitter == 0 .. (JitterMax * TicksPerSecond - 1)

-----------------------------------------------------------------------------
(* updateRecord: the batch it builds *)

CloudFrontZoneId == "Z2FDTNDATAQYW2"

\* Change with CREATE for its Action
ChangeCreate(type, new_domain, alias) ==
    [ Action |-> "CREATE",
      ResourceRecordSet |->
          [ Name |-> alias,
            Type |-> type,
            AliasTarget |-> [ HostedZoneId |-> "Z2FDTNDATAQYW2",
                              DNSName |-> new_domain,
                              EvaluateTargetHealth |-> FALSE ] ] ]

\* one element of changes, lines 156-167 and 173-184
Change(type, new_domain, alias) ==
    [ Action |-> "UPSERT",
      ResourceRecordSet |->
          [ Name |-> alias,
            Type |-> type,
            AliasTarget |-> [ HostedZoneId |-> CloudFrontZoneId,
                              DNSName |-> new_domain,
                              EvaluateTargetHealth |-> FALSE ] ] ]

\* Changes whose second change kept the Type of the first
ChangesSameType(new_domain, alias, ipv6) ==
    << Change("A", new_domain, alias) >>
    \o (IF ipv6 THEN << Change("A", new_domain, alias) >> ELSE << >>)

\* Changes with the AAAA change added whatever the flag
ChangesAlwaysBoth(new_domain, alias, ipv6) ==
    << Change("A", new_domain, alias), Change("AAAA", new_domain, alias) >>

\* the list changes
Changes(new_domain, alias, ipv6) ==
    << Change("A", new_domain, alias) >>
    \o (IF ipv6 THEN << Change("AAAA", new_domain, alias) >> ELSE << >>)

\* the keyword arguments of r53.change_resource_record_sets
ChangeRequest(hostedzoneID, new_domain, alias, ipv6) ==
    [ HostedZoneId |-> hostedzoneID,
      ChangeBatch |->
          [ Comment |-> "CloudFront CNAME swap with IPv4 and IPv6 support",
            Changes |-> Changes(new_domain, alias, ipv6) ] ]

-----------------------------------------------------------------------------
(* The DNS provider behind r53.change_resource_record_sets.  A zone is a set *)
(* of resource record sets; a batch is applied change by change and takes    *)
(* effect only if every change is accepted.                                  *)

SameKey(r, q) == r.Name = q.Name /\ r.Type = q.Type

\* one change on a zone: [ok, zone]
ApplyChange(zone, c) ==
    LET rr == c.ResourceRecordSet
        old == { r \in zone : SameKey(r, rr) }
    IN  CASE c.Action = "UPSERT" -> [ ok |-> TRUE, zone |-> (zone \ old) \cup {rr} ]
          [] c.Action = "CREATE" ->
                [ ok |-> old = {}, zone |-> zone \cup {rr} ]
          [] c.Action = "DELETE" ->
                [ ok |-> rr \in zone, zone |-> zone \ {rr} ]
          [] OTHER -> [ ok |-> FALSE, zone |-> zone ]

RECURSIVE ApplyChanges(_, _)
ApplyChanges(zone, changes) ==
    IF changes = << >> THEN [ ok |-> TRUE, zone |-> zone ]
    ELSE LET one == ApplyChange(zone, Head(changes))
         IN  IF one.ok THEN ApplyChanges(one.zone, Tail(changes))
             ELSE [ ok |-> FALSE, zone |-> zone ]

\* the batch of a request on a zone: all of it or nothing
ApplyBatch(zone, request) ==
    LET res == ApplyChanges(zone, request.ChangeBatch.Changes)
    IN  IF res.ok THEN res ELSE [ ok |-> FALSE, zone |-> zone ]

\* Calls with one provider call for each change
CallsPerChange(hostedzoneID, new_domain, alias, ipv6) ==
    [ i \in 1..Len(Changes(new_domain, alias, ipv6)) |->
        [ HostedZoneId |-> hostedzoneID,
          ChangeBatch |->
              [ Comment |-> "CloudFront CNAME swap with IPv4 and IPv6 support",
                Changes |-> << Changes(new_domain, alias, ipv6)[i] >> ] ] ]

\* the provider calls updateRecord makes, in order: one, with the whole batch
Calls(hostedzoneID, new_domain, alias, ipv6) ==
    << ChangeRequest(hostedzoneID, new_domain, alias, ipv6) >>

RECURSIVE RunCalls(_, _, _, _)
\* The calls reqs[i..] on a zone; up[j] tells whether the provider serves call
\* j.  A call the provider does not serve, or whose batch it rejects, raises:
\* the calls after it are not made.  [raised, zone, made]
RunCalls(zone, reqs, up, i) ==
    IF i > Len(reqs) THEN [ raised |-> FALSE, zone |-> zone, made |-> i - 1 ]
    ELSE LET res == ApplyBatch(zone, reqs[i])
         IN  IF up[i] /\ res.ok THEN RunCalls(res.zone, reqs, up, i + 1)
             ELSE [ raised |-> TRUE, zone |-> zone, made |-> i ]

-----------------------------------------------------------------------------
(* Inputs of the model *)

IdE == << "E" >>
ZoneZ == << "Z" >>
DomainD == << "d" >>
DomainDdot == << "d", "." >>
DomainO == << "o" >>
AliasW == << "w" >>
AliasV == << "v" >>
OtherName == << "x" >>

\* a resource record set aliased to a CloudFront domain
Rec(name, type, domain) ==
    [ Name |-> name,
      Type |-> type,
      AliasTarget |-> [ HostedZoneId |-> CloudFrontZoneId,
                        DNSName |-> domain,
                        EvaluateTargetHealth |-> FALSE ] ]

\* hosted zones a run may start from: the alias has no A record, one that
\* targets the old domain or one that targets the new; it has an AAAA record
\* or none; another name has a record of its own
Zones ==
    { {Rec(OtherName, "A", DomainO)} \cup a \cup b :
        a \in { {}, {Rec(AliasW, "A", DomainO)}, {Rec(AliasW, "A", DomainD)} },
        b \in { {}, {Rec(AliasW, "AAAA", DomainO)} } }

\* command lines: four arguments, valid or not, and wrong argument counts
RunArgvs ==
    { << id, hz, nd, al >> :
        id \in { IdE, << >> },
        hz \in { ZoneZ, << " " >> },
        nd \in { DomainD, DomainDdot, << >> },
        al \in { AliasW, << " " >> } }
    \cup { << >>, << IdE, ZoneZ, DomainD >>,
           << IdE, ZoneZ, DomainD, AliasW, AliasW >> }

\* responses of cf.get_distribution: the keys Items and IsIPV6Enabled may be
\* missing
Responses(domains, lists) ==
    [ DomainName : domains, Items : lists, IsIPV6Enabled : BOOLEAN ]
    \cup [ DomainName : domains, Items : lists ]
    \cup [ DomainName : domains, IsIPV6Enabled : BOOLEAN ]
    \cup [ DomainName : domains ]

AliasLists ==
    { << >>, << AliasV >>, << AliasW >>, << AliasV, AliasW >> }

RunResponses == Responses({ DomainD, DomainDdot, DomainO }, AliasLists)

\* the value of response before the first fetch
NoResponse == [ DomainName |-> << >> ]

Running == -1

\* An event of the run: a call of a provider or a sleep.  raised tells whether
\* the call raised; alias tells, for a response of cf.get_distribution,
\* whether its alias list held the alias of the run.
Event(op, raised, alias) == [ op |-> op, raised |-> raised, alias |-> alias ]

HasAlias(resp, alias) == "Items" \in DOMAIN resp /\ In(alias, resp.Items)

\* The value of trace in a specification that keeps no history of the run, so
\* that a run may poll without end in finitely many states.
NoTrace == << Event("untraced", FALSE, FALSE) >>

\* trace with events added at its end, where a history is kept
Log(events) == IF trace = NoTrace THEN trace ELSE trace \o events

-----------------------------------------------------------------------------
(* The run *)

InitLocals ==
    /\ response = NoResponse
    /\ aliases = << >>
    /\ total_delay = 0
    /\ ipv6_enabled = FALSE
    /\ errors = << >>
    /\ r53_calls = << >>
    /\ returns = << >>
    /\ trace = << >>
    /\ printed = [ prefix |-> "", detail |-> "" ]
    /\ exit_status = Running

Init ==
    /\ argv \in RunArgvs
    /\ dns0 \in Zones
    /\ dns = dns0
    /\ pc = "main"
    /\ InitLocals

\* a handler of main that prints and leaves out sys.exit(1): the process ends
\* with status 0
Exit1NoStatus(prefix, detail) ==
    /\ printed' = [ prefix |-> prefix, detail |-> detail ]
    /\ exit_status' = 0
    /\ pc' = "exit"

\* sys.exit(1) from a handler of main, after its print
Exit1(prefix, detail) ==
    /\ printed' = [ prefix |-> prefix, detail |-> detail ]
    /\ exit_status' = 1
    /\ pc' = "exit"

\* main, lines 197-207: wrong number of arguments
Usage ==
    /\ pc = "main"
    /\ Len(argv) # 4
    /\ Exit1("Error", "Incorrect number of arguments provided.")
    /\ UNCHANGED << argv, response, aliases, total_delay, ipv6_enabled, errors,
                    dns, dns0, r53_calls, returns, trace >>

\* Validate with validate_inputs called after the first cf.get_distribution
ValidateLate ==
    /\ pc = "main"
    /\ Len(argv) = 4
    /\ LET e == validate_inputs(argv[1], argv[2], argv[3], argv[4])
       IN  /\ errors' = e
           /\ IF e # << >>
              THEN /\ Exit1("Validation Error", "Input validation failed")
                   /\ trace' = Log(<< Event("get_distribution", FALSE, FALSE) >>)
              ELSE /\ pc' = "checkAlias"
                   /\ UNCHANGED << printed, exit_status, trace >>
    /\ UNCHANGED << argv, response, aliases, total_delay, ipv6_enabled,
                    dns, dns0, r53_calls, returns >>

\* main, lines 209-221 and 237-239: validate_inputs and its ValueError
Validate ==
    /\ pc = "main"
    /\ Len(argv) = 4
    /\ LET e == validate_inputs(argv[1], argv[2], argv[3], argv[4])
       IN  /\ errors' = e
           /\ IF e # << >>
              THEN Exit1("Validation Error", "Input validation failed")
              ELSE /\ pc' = "checkAlias"
                   /\ UNCHANGED << printed, exit_status >>
    /\ UNCHANGED << argv, response, aliases, total_delay, ipv6_enabled,
                    dns, dns0, r53_calls, returns, trace >>

\* checkAlias, lines 84-104: the first fetch, the domain check, the aliases
FetchFirst(responses) ==
    /\ pc = "checkAlias"
    /\ \E r \in responses :
          /\ response' = r
          /\ trace' = Log(<< Event("get_distribution", FALSE,
                                     HasAlias(r, argv[4])) >>)
          /\ IF DomainMismatch(argv[3], r.DomainName)
             THEN /\ Exit1("Validation Error", "Domain mismatch")
                  /\ UNCHANGED aliases
             ELSE /\ aliases' = GetAliases(r)
                  /\ pc' = "while"
                  /\ UNCHANGED << printed, exit_status >>
    /\ UNCHANGED << argv, total_delay, ipv6_enabled, errors,
                    dns, dns0, r53_calls, returns >>

\* checkAlias, lines 106-110: the loop test holds, the delay is drawn
LoopEnter ==
    /\ pc = "while"
    /\ NotReady(aliases, argv[4])
    \* the bound of the model on the polls of a run whose history is kept
    /\ Len(SelectSeq(trace, LAMBDA e : e.op = "get_distribution")) < MaxPolls
    /\ \E jitter \in Jitter : total_delay' = BaseDelay * TicksPerSecond + jitter
    /\ pc' = "sleep"
    /\ UNCHANGED << argv, response, aliases, ipv6_enabled, errors,
                    dns, dns0, r53_calls, returns, trace, printed, exit_status >>

\* checkAlias, line 113: time.sleep(total_delay)
Sleep ==
    /\ pc = "sleep"
    /\ trace' = Log(<< Event("sleep", FALSE, FALSE) >>)
    /\ pc' = "get_distribution"
    /\ UNCHANGED << argv, response, aliases, total_delay, ipv6_enabled, errors,
                    dns, dns0, r53_calls, returns, printed, exit_status >>

\* checkAlias, lines 115-127: the fetch of the loop body and its aliases
FetchAgain(responses) ==
    /\ pc = "get_distribution"
    /\ \E r \in responses :
          /\ response' = r
          /\ aliases' = GetAliases(r)
          /\ trace' = Log(<< Event("get_distribution", FALSE,
                                     HasAlias(r, argv[4])) >>)
    /\ pc' = "while"
    /\ UNCHANGED << argv, total_delay, ipv6_enabled, errors,
                    dns, dns0, r53_calls, returns, printed, exit_status >>

\* FetchFault with the exception caught in checkAlias and the call made again
FetchFaultRetry ==
    /\ pc \in { "checkAlias", "get_distribution" }
    /\ trace' = Log(<< Event("get_distribution", TRUE, FALSE) >>)
    /\ UNCHANGED << argv, pc, response, aliases, total_delay, ipv6_enabled,
                    errors, dns, dns0, r53_calls, returns, printed, exit_status >>

\* cf.get_distribution raises (line 84 or 115): main, lines 240-242
FetchFault ==
    /\ pc \in { "checkAlias", "get_distribution" }
    /\ trace' = Log(<< Event("get_distribution", TRUE, FALSE) >>)
    /\ Exit1("Error", "get_distribution")
    /\ UNCHANGED << argv, response, aliases, total_delay, ipv6_enabled, errors,
                    dns, dns0, r53_calls, returns >>

\* LoopExit that leaves out the read of IsIPV6Enabled: the flag keeps its
\* default
LoopExitNoFlag ==
    /\ pc = "while"
    /\ ~ NotReady(aliases, argv[4])
    /\ pc' = "updateRecord"
    /\ UNCHANGED << argv, response, aliases, total_delay, ipv6_enabled, errors,
                    dns, dns0, r53_calls, returns, trace, printed, exit_status >>

\* checkAlias, lines 106 and 129-134, main, line 223: the loop ends
LoopExit ==
    /\ pc = "while"
    /\ ~ NotReady(aliases, argv[4])
    /\ ipv6_enabled' = GetIPv6(response)
    /\ pc' = "updateRecord"
    /\ UNCHANGED << argv, response, aliases, total_delay, errors,
                    dns, dns0, r53_calls, returns, trace, printed, exit_status >>

\* updateRecord, lines 155-192, on the zone.  serves holds the answers to
\* "does the provider serve this call": BOOLEAN when it may be down.
updateRecord(hostedzoneID, new_domain, alias, ipv6, serves) ==
    LET reqs == Calls(hostedzoneID, new_domain, alias, ipv6)
    IN  \E up \in [ 1..Len(reqs) -> serves ] :
            LET res == RunCalls(dns, reqs, up, 1)
            IN  /\ dns' = res.zone
                /\ r53_calls' = r53_calls \o SubSeq(reqs, 1, res.made)
                /\ returns' = Append(returns, [ raised |-> res.raised,
                                                zone |-> res.zone ])
                /\ trace' = Log(
                       [ i \in 1..res.made |->
                           Event("change_resource_record_sets",
                                 res.raised /\ i = res.made, FALSE) ])

\* UpdateRecord with the provider's exception swallowed: the run goes on to
\* print its success
UpdateRecordSwallows ==
    /\ pc = "updateRecord"
    /\ updateRecord(argv[2], argv[3], argv[4], ipv6_enabled, BOOLEAN)
    /\ printed' = [ prefix |-> "", detail |-> "DNS record updated" ]
    /\ exit_status' = 0
    /\ pc' = "exit"
    /\ UNCHANGED << argv, response, aliases, total_delay, ipv6_enabled, errors, dns0 >>

\* main, lines 230-235 and 240-242: updateRecord and the end of the run
UpdateRecord ==
    /\ pc = "updateRecord"
    /\ updateRecord(argv[2], argv[3], argv[4], ipv6_enabled, BOOLEAN)
    /\ IF returns'[Len(returns')].raised
       THEN Exit1("Error", "change_resource_record_sets")
       ELSE /\ printed' = [ prefix |-> "", detail |-> "DNS record updated" ]
            /\ exit_status' = 0
            /\ pc' = "exit"
    /\ UNCHANGED << argv, response, aliases, total_delay, ipv6_enabled, errors, dns0 >>

Next ==
    \/ Usage
    \/ Validate
    \/ FetchFirst(RunResponses)
    \/ FetchFault
    \/ LoopEnter
    \/ Sleep
    \/ FetchAgain(RunResponses)
    \/ LoopExit
    \/ UpdateRecord

Spec == Init /\ [][Next]_vars

-----------------------------------------------------------------------------
(* validate_inputs on every command line of four short strings *)

FieldStrings == Strs({ "a", " " }, MaxFieldLen)

InitValidate ==
    /\ argv \in { << id, hz, nd, al >> :
                    id \in FieldStrings, hz \in FieldStrings,
                    nd \in FieldStrings, al \in FieldStrings }
    /\ dns0 \in { {} }
    /\ dns = dns0
    /\ pc = "main"
    /\ InitLocals

NextValidate == Validate

SpecValidate == InitValidate /\ [][NextValidate]_vars

-----------------------------------------------------------------------------
(* The domain check of checkAlias on every pair of short domain names *)

DomainStrings == Strs({ "d", "." }, MaxDomainLen)

DomainResponses == Responses(DomainStrings, { << AliasW >> })

InitDomain ==
    /\ argv \in { << IdE, ZoneZ, nd, AliasW >> : nd \in DomainStrings }
    /\ dns0 \in { {} }
    /\ dns = dns0
    /\ pc = "main"
    /\ InitLocals

NextDomain ==
    \/ Validate
    \/ FetchFirst(DomainResponses)

SpecDomain == InitDomain /\ [][NextDomain]_vars

-----------------------------------------------------------------------------
(* updateRecord called several times in succession with the same arguments, *)
(* on a provider that serves every call                                      *)

\* calls of updateRecord in succession
MaxSwaps == 2

InitSwap ==
    /\ argv \in { << IdE, ZoneZ, nd, al >> :
                    nd \in { DomainD, DomainDdot, DomainO },
                    al \in { AliasW, AliasV } }
    /\ dns0 \in Zones
    /\ dns = dns0
    /\ pc = "updateRecord"
    /\ response = NoResponse
    /\ aliases = << >>
    /\ total_delay = 0
    /\ ipv6_enabled \in BOOLEAN
    /\ errors = << >>
    /\ r53_calls = << >>
    /\ returns = << >>
    /\ trace = << >>
    /\ printed = [ prefix |-> "", detail |-> "" ]
    /\ exit_status = Running

SwapAlias ==
    /\ pc = "updateRecord"
    /\ Len(returns) < MaxSwaps
    /\ updateRecord(argv[2], argv[3], argv[4], ipv6_enabled, { TRUE })
    /\ UNCHANGED << argv, pc, response, aliases, total_delay, ipv6_enabled,
                    errors, dns0, printed, exit_status >>

NextSwap == SwapAlias

SpecSwap == InitSwap /\ [][NextSwap]_vars

-----------------------------------------------------------------------------
(* The run without a bound on its polls.  The process is sequential and is   *)
(* not stopped from outside: a provider call returns or raises, a sleep      *)
(* ends, so the step the run can take is taken (weak fairness of Next).      *)

InitLive ==
    /\ argv \in RunArgvs
    /\ dns0 \in Zones
    /\ dns = dns0
    /\ pc = "main"
    /\ response = NoResponse
    /\ aliases = << >>
    /\ total_delay = 0
    /\ ipv6_enabled = FALSE
    /\ errors = << >>
    /\ r53_calls = << >>
    /\ returns = << >>
    /\ trace = NoTrace
    /\ printed = [ prefix |-> "", detail |-> "" ]
    /\ exit_status = Running

SpecLive == InitLive /\ [][Next]_vars /\ WF_vars(Next)

-----------------------------------------------------------------------------
(* The run against a distribution whose IsIPV6Enabled differs from one poll *)
(* to the next: true in the odd polls, false or missing in the even ones    *)

\* the responses the n-th poll may get
FlagResponses(n) ==
    { r \in RunResponses :
        ("IsIPV6Enabled" \in DOMAIN r /\ r.IsIPV6Enabled) <=> (n % 2 = 1) }

\* polls made so far
Polls == Len(SelectSeq(trace, LAMBDA e : e.op = "get_distribution"))

InitFlag ==
    /\ argv \in { << IdE, ZoneZ, nd, AliasW >> : nd \in { DomainD, DomainDdot } }
    /\ dns0 \in Zones
    /\ dns = dns0
    /\ pc = "main"
    /\ InitLocals

NextFlag ==
    \/ Validate
    \/ FetchFirst(FlagResponses(1))
    \/ LoopEnter
    \/ Sleep
    \/ FetchAgain(FlagResponses(Polls + 1))
    \/ LoopExit
    \/ UpdateRecord

SpecFlag == InitFlag /\ [][NextFlag]_vars

-----------------------------------------------------------------------------
(* Properties *)

\* s without one trailing "." if it has one
StripOneDot(s) ==
    IF s # << >> /\ s[Len(s)] = "." THEN SubSeq(s, 1, Len(s) - 1) ELSE s

\* the two domain names are the same up to one trailing root-label dot
SameDomain(expected, actual) == StripOneDot(expected) = StripOneDot(actual)

Ops(op) == { i \in 1..Len(trace) : trace[i].op = op }
Fetches == Ops("get_distribution")
Sleeps == Ops("sleep")
Updates == Ops("change_resource_record_sets")

Done == pc = "exit" /\ exit_status = 0
Failed == pc = "exit" /\ exit_status # 0

\* C1: whenever the run has submitted a ChangeBatch, the last snapshot fetched
\* holds the alias in its alias list and its canonical domain equals the
\* expected domain up to the trailing dot.
C1_SubmitOnlyWhenLastSnapshotReady ==
    r53_calls # << >> =>
        /\ HasAlias(response, argv[4])
        /\ SameDomain(argv[3], response.DomainName)

\* C2: the domain check is made on the snapshot of every poll: once a poll has
\* returned a snapshot whose domain differs from the expected one, the run has
\* failed with a domain mismatch and has made no DNS call.
C2_MismatchFailsInEveryPoll ==
    (response # NoResponse /\ ~ SameDomain(argv[3], response.DomainName)) =>
        /\ Failed
        /\ printed.detail = "Domain mismatch"
        /\ trace[Len(trace)].op = "get_distribution"
        /\ r53_calls = << >>

\* C3: the DNS batch update is called at most once in a run, its call is the
\* last event of the run, so no poll follows it, and the event before it is a
\* poll that returned a snapshot holding the alias.
C3_UpdateOnceAfterReadyPoll ==
    /\ Cardinality(Updates) <= 1
    /\ Len(r53_calls) = Cardinality(Updates)
    /\ \A i \in Updates :
          /\ i = Len(trace)
          /\ i > 1
          /\ trace[i - 1] = Event("get_distribution", FALSE, TRUE)

\* a run that polled three times and then made its DNS call
C3_Witness ==
    /\ Cardinality(Fetches) = 3
    /\ Cardinality(Updates) = 1
    /\ pc = "exit"

\* C4: a run that ended in a validation error has made no CDN query and no DNS
\* call, a run that ended in a domain mismatch has made no DNS call, and both
\* leave the zone as it was at the start.
C4_NoDnsCallOnValidationOrMismatch ==
    /\ (Failed /\ printed.detail = "Input validation failed") =>
          /\ trace = << >>
          /\ r53_calls = << >>
          /\ dns = dns0
    /\ (Failed /\ printed.detail = "Domain mismatch") =>
          /\ Updates = {}
          /\ r53_calls = << >>
          /\ dns = dns0

\* a run that failed validation on a whitespace-only field, from a zone that
\* holds a record for the alias
C4_Witness ==
    /\ Failed
    /\ printed.detail = "Input validation failed"
    /\ Len(argv) = 4 /\ argv[2] = << " " >>
    /\ \E r \in dns0 : r.Name = AliasW

\* a run that failed on a domain mismatch
C4_WitnessMismatch ==
    /\ Failed
    /\ printed.detail = "Domain mismatch"
    /\ Cardinality(Fetches) = 1

\* every character of s is whitespace (so also: s is empty)
Blank(s) == \A i \in 1..Len(s) : s[i] \in Whitespace

\* the message validate_inputs has for each of its four arguments
FieldMsg == << MsgCloudfrontId, MsgHostedZoneId, MsgNewDomain, MsgAlias >>

\* C5: validation of four inputs succeeds iff none is empty or whitespace-only;
\* otherwise the run fails with one validation error whose list names every
\* such field, once, and no other field.
C5_ValidationNamesEveryBlankField ==
    (pc # "main" /\ Len(argv) = 4) =>
        LET blank == { i \in 1..4 : Blank(argv[i]) }
        IN  /\ (pc = "checkAlias") <=> (blank = {})
            /\ (Failed /\ printed = [ prefix |-> "Validation Error",
                                      detail |-> "Input validation failed" ])
                  <=> (blank # {})
            /\ \A i \in 1..4 : In(FieldMsg[i], errors) <=> i \in blank
            /\ Len(errors) = Cardinality(blank)

\* validation failed on an empty field and a whitespace-only field, the other
\* two being valid
C5_Witness ==
    /\ Failed
    /\ Len(argv) = 4
    /\ argv[1] = << >> /\ argv[3] = << " ", " " >>
    /\ ~ Blank(argv[2]) /\ ~ Blank(argv[4])
    /\ errors = << MsgCloudfrontId, MsgNewDomain >>

\* C6: every batch submitted holds one change, of type A, when ipv6 is false
\* and two, of types A and AAAA, when it is true; every change is an UPSERT of
\* the alias name targeting the new domain in the CloudFront alias zone; and
\* each call of updateRecord made one provider call.
C6_BatchShape ==
    /\ Len(r53_calls) = Len(returns)
    /\ \A n \in 1..Len(r53_calls) :
          LET changes == r53_calls[n].ChangeBatch.Changes
              types == [ i \in 1..Len(changes) |-> changes[i].ResourceRecordSet.Type ]
          IN  /\ r53_calls[n].HostedZoneId = argv[2]
              /\ types = IF ipv6_enabled THEN << "A", "AAAA" >> ELSE << "A" >>
              /\ \A i \in 1..Len(changes) :
                    /\ changes[i].Action = "UPSERT"
                    /\ changes[i].ResourceRecordSet.Name = argv[4]
                    /\ changes[i].ResourceRecordSet.AliasTarget.DNSName = argv[3]
                    /\ changes[i].ResourceRecordSet.AliasTarget.HostedZoneId
                          = "Z2FDTNDATAQYW2"

\* a dual-stack call of updateRecord has been made
C6_Witness ==
    /\ Len(r53_calls) >= 1
    /\ ipv6_enabled
    /\ Len(r53_calls[1].ChangeBatch.Changes) = 2

\* s is core followed by dots only, and core does not end in a dot
CoreOf(core, s) ==
    \E n \in 0..Len(s) :
        /\ core = SubSeq(s, 1, n)
        /\ \A i \in (n + 1)..Len(s) : s[i] = "."
        /\ n = 0 \/ s[n] # "."

\* the two domain names differ in their trailing dots only
SameUpToTrailingDots(expected, actual) ==
    \E n \in 0..Len(expected) :
        /\ CoreOf(SubSeq(expected, 1, n), expected)
        /\ CoreOf(SubSeq(expected, 1, n), actual)

\* C7, as claimed: after the first poll the run goes on iff the expected and
\* the actual domain are identical once at most ONE trailing dot is removed
\* from each.
C7_MatchIffEqualUpToOneDot ==
    response # NoResponse =>
        ((pc = "while") <=> SameDomain(argv[3], response.DomainName))

\* C7, amended: after the first poll the run goes on iff the expected and the
\* actual domain are identical once EVERY trailing dot is removed from each;
\* otherwise it has failed with a domain mismatch.
C7_MatchIffEqualUpToTrailingDots ==
    response # NoResponse =>
        /\ (pc = "while") <=> SameUpToTrailingDots(argv[3], response.DomainName)
        /\ (Failed /\ printed.detail = "Domain mismatch")
              <=> ~ SameUpToTrailingDots(argv[3], response.DomainName)

\* the expected domain "d.." was matched with the actual domain "d"
C7_Witness ==
    /\ pc = "while"
    /\ argv[3] = << "d", ".", "." >>
    /\ response.DomainName = << "d" >>

\* the records of the zone for a name and a type
RecordsOf(zone, name, type) == { r \in zone : r.Name = name /\ r.Type = type }

\* the alias is repointed: its A record, and its AAAA record when the last
\* snapshot is dual-stack, is one record that targets the new domain
Repointed ==
    /\ Len(argv) = 4
    /\ \A t \in (IF GetIPv6(response) THEN { "A", "AAAA" } ELSE { "A" }) :
          \E r \in dns :
              /\ RecordsOf(dns, argv[4], t) = { r }
              /\ r.AliasTarget.DNSName = argv[3]

\* C8: when the run has ended, the zone is what it was before the run or the
\* alias is fully repointed; no part of a batch is applied alone.
C8_UnchangedOrFullyRepointed ==
    pc = "exit" => (dns = dns0 \/ Repointed)

\* a dual-stack run ended with both records of the alias replaced
C8_Witness ==
    /\ Done
    /\ GetIPv6(response)
    /\ Rec(AliasW, "A", DomainO) \in dns0
    /\ Rec(AliasW, "AAAA", DomainO) \in dns0
    /\ dns # dns0
    /\ Repointed

\* C9: called again with the same arguments, updateRecord does not fail and
\* leaves the zone as the first call left it, and the zone never holds two
\* records of one name and type.
C9_SwapIdempotent ==
    /\ \A n \in 2..Len(returns) :
          /\ ~ returns[n].raised
          /\ returns[n].zone = returns[1].zone
    /\ \A r \in dns : \A q \in dns : SameKey(r, q) => r = q

\* updateRecord was called twice and the first call changed the zone
C9_Witness ==
    /\ Len(returns) = 2
    /\ returns[1].zone # dns0
    /\ \E r \in dns0 : r.Name = argv[4]

\* C10: the polls and sleeps of a run alternate, starting with a poll; nothing
\* follows the first poll whose snapshot holds the alias, so with k snapshots
\* without the alias before it the poller makes k + 1 polls and k sleeps; and
\* every sleep lasts at least 3 and less than 8 seconds.
C10_PollSleepAlternation ==
    LET polling == Fetches \cup Sleeps
    IN  /\ \A i \in polling :
              /\ \A j \in 1..i : j \in polling
              /\ trace[i].op = IF i % 2 = 1 THEN "get_distribution" ELSE "sleep"
        /\ \A i \in Fetches : trace[i].alias => \A j \in polling : j <= i
        /\ (pc = "updateRecord" \/ Updates # {}) =>
              \E k \in 0..Len(trace) :
                  /\ Cardinality(Fetches) = k + 1
                  /\ Cardinality(Sleeps) = k
                  /\ trace[2 * k + 1].alias
                  /\ \A i \in Fetches : i < 2 * k + 1 => ~ trace[i].alias
        /\ pc = "sleep" =>
              /\ total_delay >= 3 * TicksPerSecond
              /\ total_delay < 8 * TicksPerSecond

\* the alias was absent from two snapshots and present in the third
C10_Witness ==
    /\ pc = "updateRecord"
    /\ Cardinality(Fetches) = 3
    /\ Cardinality(Sleeps) = 2

\* a sleep of the longest duration the model draws is about to start
C10_WitnessSleep ==
    /\ pc = "sleep"
    /\ total_delay = 8 * TicksPerSecond - 1

\* C11: every run terminates: a run whose snapshots never hold the alias ends
\* in a failure (a timeout) instead of polling forever.
C11_EveryRunTerminates == <>(pc = "exit")

\* the run made its DNS call and the provider accepted it
UpdateAccepted == \E i \in Updates : ~ trace[i].raised

\* C12: the exit status is 0 iff the run made the DNS update and the provider
\* accepted it; every other end of the run (wrong argument count, validation
\* failure, domain mismatch, CDN or DNS provider error) has status 1.
C12_ExitStatusZeroIffUpdated ==
    /\ pc # "exit" => exit_status = Running
    /\ pc = "exit" =>
          /\ exit_status \in { 0, 1 }
          /\ (exit_status = 0) <=> UpdateAccepted
          /\ printed.detail \in { "Incorrect number of arguments provided.",
                                  "Input validation failed", "Domain mismatch",
                                  "get_distribution",
                                  "change_resource_record_sets" }
                => exit_status = 1

\* a run ended with status 0 after an accepted update
C12_Witness ==
    /\ pc = "exit"
    /\ exit_status = 0
    /\ UpdateAccepted

\* a run ended with status 1 after the DNS provider's error
C12_WitnessFailure ==
    /\ pc = "exit"
    /\ exit_status = 1
    /\ printed.detail = "change_resource_record_sets"

\* the alias list of a response is absent or empty
EmptyOrAbsent(resp) == "Items" \notin DOMAIN resp \/ resp.Items = << >>

\* C13: a snapshot whose alias list is absent or empty is never taken as ready
\* and, its domain matching, never fails the run: the poller goes to the loop
\* test, from there to its sleep and from the sleep to the next poll.
C13_EmptyAliasListIsTransient ==
    [][ /\ ( /\ pc \in { "checkAlias", "get_distribution" }
             /\ printed'.detail # "get_distribution"
             /\ EmptyOrAbsent(response')
             /\ SameUpToTrailingDots(argv[3], response'.DomainName) )
           => pc' = "while"
        /\ (pc = "while" /\ EmptyOrAbsent(response)) => pc' = "sleep"
        /\ pc = "sleep" => pc' = "get_distribution"
        /\ pc' = "updateRecord" => ~ EmptyOrAbsent(response')
      ]_vars

\* the second snapshot had no alias list and a matching domain, and the poller
\* is about to sleep again
C13_Witness ==
    /\ pc = "sleep"
    /\ "Items" \notin DOMAIN response
    /\ response.DomainName = argv[3]
    /\ Cardinality(Fetches) = 2

\* the snapshot is dual-stack
DualStack(resp) == "IsIPV6Enabled" \in DOMAIN resp /\ resp.IsIPV6Enabled

\* C14: the flag handed to updateRecord, and with it the number of changes of
\* the batch, is that of the last snapshot fetched, whatever the flag of the
\* snapshots before it.
C14_FlagOfLastSnapshot ==
    /\ pc = "updateRecord" => (ipv6_enabled <=> DualStack(response))
    /\ \A n \in 1..Len(r53_calls) :
          Len(r53_calls[n].ChangeBatch.Changes)
              = IF DualStack(response) THEN 2 ELSE 1

\* the first snapshot was dual-stack, the second (the ready one) was not, and
\* the batch sent holds one change
C14_Witness ==
    /\ Polls = 2
    /\ ~ DualStack(response)
    /\ Len(r53_calls) = 1
    /\ Len(r53_calls[1].ChangeBatch.Changes) = 1

\* the second snapshot was single-stack, the third (the ready one) dual-stack,
\* and the batch sent holds two changes
C14_WitnessDual ==
    /\ Polls = 3
    /\ DualStack(response)
    /\ Len(r53_calls) = 1
    /\ Len(r53_calls[1].ChangeBatch.Changes) = 2

\* the positions of the run that make up POLLING
PollingPcs == { "checkAlias", "while", "sleep", "get_distribution" }

\* the order of the states START/VALIDATING, POLLING, SWAPPING, terminal
Rank(p) ==
    CASE p = "main" -> 0
      [] p \in PollingPcs -> 1
      [] p = "updateRecord" -> 2
      [] OTHER -> 3

\* the snapshot at the loop test holds the alias and has the expected domain
ReadyAtTest ==
    pc = "while" =>
        /\ HasAlias(response, argv[4])
        /\ SameUpToTrailingDots(argv[3], response.DomainName)

\* C15: POLLING is the only state a step may stay in, and it is left only by
\* a snapshot that holds the alias, a domain mismatch or a provider fault.
\* With the run's next step always taken: if from some point on every
\* snapshot tested is ready, the run reaches its end; and from a loop test
\* after which no snapshot holds the alias and no fetch raises, the run stays
\* in POLLING forever.
C15_PollingLiveness ==
    /\ [][ /\ pc \notin PollingPcs => Rank(pc') > Rank(pc)
           /\ pc \in PollingPcs => Rank(pc') >= Rank(pc)
           /\ (pc \in PollingPcs /\ pc' \notin PollingPcs) =>
                 \/ pc' = "updateRecord" /\ HasAlias(response', argv[4])
                 \/ /\ pc' = "exit"
                    /\ printed'.detail \in { "Domain mismatch", "get_distribution" }
         ]_vars
    /\ (<>[]ReadyAtTest) => <>(pc = "exit")
    /\ []( ( /\ pc = "while"
             /\ [](~ HasAlias(response, argv[4])
                   /\ printed.detail # "get_distribution") )
           => [](pc \in PollingPcs) )

\* a run that slept at least once, left POLLING and ended with its update
C15_Witness ==
    /\ trace = NoTrace
    /\ total_delay > 0
    /\ pc = "exit"
    /\ exit_status = 0

\* C16: when the DNS provider fails the batch update, the run is at its end
\* with a failure: that call is the only DNS call and the last event of the
\* run, so it is not retried and no poll follows, and the run reports an
\* error with status 1, not a success.
C16_DnsErrorIsTerminal ==
    (\E i \in Updates : trace[i].raised) =>
        /\ pc = "exit"
        /\ exit_status = 1
        /\ printed = [ prefix |-> "Error", detail |-> "change_resource_record_sets" ]
        /\ Cardinality(Updates) = 1
        /\ Len(r53_calls) = 1
        /\ trace[Len(trace)].op = "change_resource_record_sets"

\* the provider failed the update of a run that had polled twice
C16_Witness ==
    /\ \E i \in Updates : trace[i].raised
    /\ Cardinality(Fetches) = 2
    /\ pc = "exit"

\* C17: a fault of the CDN query, in the first poll or a later one, ends the
\* run: the failed call is the last event (no retry), the run has failed, no
\* DNS call was made and the zone is what it was.
C17_CdnFaultIsTerminal ==
    \A i \in Fetches :
        trace[i].raised =>
            /\ i = Len(trace)
            /\ pc = "exit"
            /\ exit_status = 1
            /\ printed = [ prefix |-> "Error", detail |-> "get_distribution" ]
            /\ Updates = {}
            /\ r53_calls = << >>
            /\ dns = dns0

\* the second poll of a run raised
C17_Witness ==
    /\ Cardinality(Fetches) = 2
    /\ trace[Len(trace)] = Event("get_distribution", TRUE, FALSE)
    /\ pc = "exit"

\* C18: the run changes no record but the A record of the alias and, when
\* ipv6_enabled is true, its AAAA record: with the flag false an AAAA record
\* of the alias stays what it was, and so does every record of another name.
C18_SwapFrame ==
    /\ Len(argv) # 4 => dns = dns0
    /\ Len(argv) = 4 =>
          /\ \A r \in dns \cup dns0 :
                (r.Name # argv[4] \/ r.Type \notin { "A", "AAAA" })
                    => (r \in dns <=> r \in dns0)
          /\ ~ ipv6_enabled =>
                RecordsOf(dns, argv[4], "AAAA") = RecordsOf(dns0, argv[4], "AAAA")

\* a single-stack run replaced the A record of the alias and left its AAAA
\* record on the old domain
C18_Witness ==
    /\ pc = "exit"
    /\ exit_status = 0
    /\ ~ ipv6_enabled
    /\ Rec(AliasW, "A", DomainO) \in dns0
    /\ Rec(AliasW, "A", DomainO) \notin dns
    /\ Rec(AliasW, "AAAA", DomainO) \in dns0 \cap dns
    /\ Rec(OtherName, "A", DomainO) \in dns

=============================================================================
